---- MODULE Spec2Model ----
(***************************************************************************)
(* Client-defaults autofill scripts of the scheduling application.         *)
(*                                                                         *)
(* Four scripts reconcile a client's stored defaults into the dependent    *)
(* fields of a form when the client-selection control changes:             *)
(*   "spinner"  scheduler/static/scheduler/add_schedule_defaults.js        *)
(*              (src/unnamed/part_000: handleClientChange, busy gate)      *)
(*   "body"     scheduler/static/scheduler/js/autofill_client_admin.js     *)
(*   "admin"    scheduler/scheduler/admin_client_defaults.js               *)
(*   "public"   scheduler/static/add_schedule_defaults.js                  *)
(* A page loads one of them; the variable  script  says which.  The DOM is *)
(* a document whose rows 1..nrows each hold one client control and the     *)
(* dependent fields; root 0 is the enclosing form (the document).          *)
(* Every asynchronous handler is an entry of  calls : it runs up to its    *)
(* await when the event is dispatched and resumes, atomically (the code    *)
(* touches the page only in the last continuation), when its fetch settles.*)
(*                                                                         *)
(* A fifth script, scheduler/static/scheduler/client_typeahead.js, puts a  *)
(* search box above the client select of row 1: debounced input starts a   *)
(* search whose result page replaces the select's options.                 *)
(***************************************************************************)
EXTENDS Integers, Sequences, FiniteSets, TLC

VARIABLES
    script,      \* which script the page has loaded
    loaded,      \* TRUE once the script's ready / DOMContentLoaded callback ran
    nrows,       \* number of rows (scopes) in the document, in document order
    widget,      \* kind of client control: "select", "raw" (text input), "hidden"
    absent,      \* dependent fields that do not exist in the document
    client,      \* client[r]: value of row r's client control (sequence of characters)
    value,       \* value[<<r, f>>]: value of dependent field f of row r
    disabled,    \* disabled[<<r, f>>]: the field's disabled flag
    spinner,     \* TRUE while the inline spinner is displayed
    listeners,   \* registered event listeners, in registration order
    calls,       \* asynchronous handler invocations, in start order
    listAttr,    \* listAttr[<<r, f>>]: id of the datalist attached to the field
    datalists,   \* datalists[id]: option values of the datalist with that id
    enhanced,    \* TRUE once client_typeahead.js injected its search box
    search,      \* value of the search box (sequence of characters)
    timers,      \* pending debounce timeouts: milliseconds left until each is due
    options,     \* options of row 1's client select, once the type-ahead tracks them
    searches,    \* run() invocations suspended at their await, oldest first
    issued,      \* number of search requests sent so far
    status,      \* the status line under the search box
    emitted      \* events the latest finished run() dispatched on the select

\* the state of the type-ahead
typeahead == <<enhanced, search, timers, options, searches, issued, status, emitted>>

vars == <<script, loaded, nrows, widget, absent, client, value, disabled,
          spinner, listeners, calls, listAttr, datalists, typeahead>>

-----------------------------------------------------------------------------
(* Bounds of the model *)

\* most asynchronous handler invocations ever started on one page
MaxCalls == 3

\* most applyClientDefaults invocations ever started on one admin page (each
\* event there reaches a row listener and a form listener)
MaxApplies == 4

\* most rows the document ever holds (rows are only ever added)
MaxRows == 2

-----------------------------------------------------------------------------
(* The document *)

\* root 0: the enclosing form / the document itself
Form == 0

Rows == 1..MaxRows

DepFields == {"pickup_address", "pickup_city", "pickup_state",
              "dropoff_address", "dropoff_city", "dropoff_state",
              "start_time", "notes"}

FieldEls == Rows \X DepFields

\* the fields of document rows 1..n
FieldsOf(n) == (1..n) \X DepFields

\* JavaScript's undefined / a missing JSON key
UNDEF == "<undefined>"

\* no datalist attached
NoList == <<>>

Digits == {"0", "1", "2", "3", "4", "5", "6", "7", "8", "9"}

Whitespace == {" "}

\* /^\d+$/.test(s)
IsDigits(s) == Len(s) > 0 /\ \A i \in 1..Len(s) : s[i] \in Digits

RECURSIVE TrimLeft(_)
TrimLeft(s) ==
    IF s # <<>> /\ Head(s) \in Whitespace THEN TrimLeft(Tail(s)) ELSE s

RECURSIVE TrimRight(_)
TrimRight(s) ==
    IF s # <<>> /\ s[Len(s)] \in Whitespace
    THEN TrimRight(SubSeq(s, 1, Len(s) - 1)) ELSE s

\* String.prototype.trim
Trim(s) == TrimRight(TrimLeft(s))

\* x || "" on a string or undefined
OrEmpty(x) == IF x = UNDEF \/ x = "" THEN "" ELSE x

\* x || y
OrElse(x, y) == IF x = UNDEF \/ x = "" THEN y ELSE x

-----------------------------------------------------------------------------
(* The defaults endpoints (external; their answers are inputs) *)

\* values the operator may put into a client control
ClientValues == { <<>>, <<"7">>, <<"8">>, <<"a", "b">>, <<" ", "7">> }

\* the clients the backend knows
KnownClients == { <<"7">>, <<"8">> }

NoRecord ==
    [pickup_address |-> UNDEF, pickup_city |-> UNDEF, pickup_state |-> UNDEF,
     dropoff_address |-> UNDEF, dropoff_city |-> UNDEF, dropoff_state |-> UNDEF,
     pickup_time |-> UNDEF, start_time |-> UNDEF, notes |-> UNDEF]

\* the stored defaults of a known client
ClientRecord(cid) ==
    IF cid = <<"7">>
    THEN [pickup_address |-> "12 Elm St", pickup_city |-> "Avon", pickup_state |-> UNDEF,
          dropoff_address |-> "", dropoff_city |-> "", dropoff_state |-> UNDEF,
          pickup_time |-> UNDEF, start_time |-> "09:00", notes |-> "VIP"]
    ELSE [pickup_address |-> "8 Oak Rd", pickup_city |-> "", pickup_state |-> "OH",
          dropoff_address |-> "5 Pine Ct", dropoff_city |-> "Troy", dropoff_state |-> "OH",
          pickup_time |-> "10:30", start_time |-> UNDEF, notes |-> ""]

\* JSON bodies a defaults endpoint may answer with.  ok is "true", "false" or
\* "missing"; hasClient says whether the body carries client data (nested under
\* client for the defaults endpoints, flat for the mini endpoint); rec is that data.
Bodies(cid) ==
    { [ok |-> "false",   hasClient |-> FALSE, rec |-> NoRecord],
      [ok |-> "missing", hasClient |-> FALSE, rec |-> NoRecord],
      [ok |-> "true",    hasClient |-> FALSE, rec |-> NoRecord] }
    \cup (IF cid \in KnownClients
          THEN { [ok |-> "true", hasClient |-> TRUE, rec |-> ClientRecord(cid)] }
          ELSE {})

NoBody == [ok |-> "missing", hasClient |-> FALSE, rec |-> NoRecord]

\* How a fetch may settle: the request fails ("neterr"), the status is not 2xx
\* ("http"), the status is 2xx but the content is not JSON ("html"), or a JSON body.
Responses(cid) ==
    { [kind |-> k, body |-> NoBody] : k \in {"neterr", "http", "html"} }
    \cup { [kind |-> "json", body |-> b] : b \in Bodies(cid) }

AllResponses == UNION { Responses(cid) : cid \in ClientValues }

-----------------------------------------------------------------------------
(* Initial documents *)

\* a freshly added row: no client chosen, every field empty
NewRow == [f \in DepFields |-> ""]

\* a row of a record being edited: some fields already hold a value
ExistingRow ==
    [f \in DepFields |->
        IF f = "pickup_address" THEN "1 Main St"
        ELSE IF f = "notes" THEN "call first" ELSE ""]

\* the client of a record being edited
ExistingClient == <<"7">>

\* the sets of dependent fields a page may lack
AbsentChoices == { {}, {"dropoff_address", "dropoff_city"} }

\* documents of n rows, each row new or existing; absent fields hold nothing
InitialDocs(n, abs) ==
    { [client |-> [r \in 1..n |-> IF r \in ex THEN ExistingClient ELSE <<>>],
       value  |-> [e \in FieldsOf(n) |->
                      IF e[2] \in abs THEN ""
                      ELSE IF e[1] \in ex THEN ExistingRow[e[2]] ELSE NewRow[e[2]]]]
      : ex \in SUBSET (1..n) }

\* values the operator types into a dependent field
TypedValues == {"", "typed"}

\* the dependent fields the operator edits by hand
TypedFields == {"pickup_address", "pickup_city"}

\* a handler invocation suspended at its await, working on root for client cid
NewCall(root, cid) ==
    [root |-> root, cid |-> cid, pc |-> "await", exits |-> 0, raised |-> FALSE]

\* s followed by n copies of c
RECURSIVE AppendN(_, _, _)
AppendN(s, c, n) == IF n = 0 THEN s ELSE AppendN(Append(s, c), c, n - 1)

\* a handler invocation that has returned: its locals are gone, what is kept is
\* how often it left the busy gate and whether its promise was rejected
Returned(exits, raised) ==
    [root |-> Form, cid |-> <<>>, pc |-> "done", exits |-> exits, raised |-> raised]

\* invocation i returns, start order kept: its entry becomes the summary r
ReturnInPlace(cs, i, r) == [cs EXCEPT ![i] = r]

\* invocation i returns where nothing reads the start order of returned
\* invocations: the summary r goes to the front, the rest keeps its order
ReturnToFront(cs, i, r) ==
    <<r>> \o SubSeq(cs, 1, i - 1) \o SubSeq(cs, i + 1, Len(cs))

Pending == { i \in DOMAIN calls : calls[i].pc = "await" }

\* the status line: a text and, where the text shows one, a result count
Status(text, n) == [text |-> text, n |-> n]

\* a page without client_typeahead.js: no search box, nothing ever searched
NoTypeahead ==
    /\ enhanced = FALSE
    /\ search = <<>>
    /\ timers = <<>>
    /\ options = <<>>
    /\ searches = <<>>
    /\ issued = 0
    /\ status = Status("", 0)
    /\ emitted = <<>>

-----------------------------------------------------------------------------
(* Event dispatch: which listeners a bubbling event makes run *)

\* the events forceSet and set dispatch on a field they wrote, in order
FieldEvents == <<"input", "change">>

\* the element a listener of the page's script is registered on: the client
\* control itself ("spinner", "public"), document.body ("body"), or a scope
\* root ("admin")
ListenerAt(l, sc) ==
    IF sc \in {"spinner", "public"} THEN <<"control", l.on>>
    ELSE IF sc = "body" THEN <<"body", Form>>
    ELSE <<"root", l.on>>

\* the elements a bubbling event visits when its target is the client control
\* (kind "control") or a dependent field (kind "field") of row r
EventPath(kind, r) ==
    { <<kind, r>>, <<"root", r>>, <<"root", Form>>, <<"body", Form>> }

\* a body listener that does not look at the event's target
Accepts_Any(sc, kind) == TRUE

\* the test a listener makes on the event's target before it reconciles:
\* "body" wants a SELECT whose id or name ends in "client"; "admin" takes any
\* select or input; the listeners bound to the control itself test nothing
Accepts(sc, kind) == IF sc = "body" THEN kind = "control" ELSE TRUE

\* the listeners that start a reconciliation when an event of the given type
\* is dispatched on the control or on a field of row r
Runs(ls, sc, type, kind, r) ==
    { i \in DOMAIN ls : /\ ls[i].type = type
                        /\ ListenerAt(ls[i], sc) \in EventPath(kind, r)
                        /\ Accepts(sc, kind) }

\* the reconciliations started by the events dispatched on one written field
EchoesPerField(ls, sc, r) ==
    Cardinality(Runs(ls, sc, FieldEvents[1], "field", r))
    + Cardinality(Runs(ls, sc, FieldEvents[2], "field", r))

-----------------------------------------------------------------------------
(* "spinner": src/unnamed/part_000 *)

\* fetchJSON: the parsed body, or null on any failure
FetchJSON(resp) ==
    IF resp.kind = "json"
    THEN [null |-> FALSE, data |-> resp.body]
    ELSE [null |-> TRUE, data |-> NoBody]

\* getClientDefaults: the body's flat keys, normalised; null when fetchJSON is null
GetClientDefaults(resp) ==
    LET j == FetchJSON(resp)
        d == j.data.rec
    IN  IF j.null
        THEN [null |-> TRUE, rec |-> NoRecord]
        ELSE [null |-> FALSE,
              rec |-> [pickup_address  |-> OrEmpty(d.pickup_address),
                       dropoff_address |-> OrEmpty(d.dropoff_address),
                       pickup_time     |-> OrElse(d.pickup_time, OrEmpty(d.start_time)),
                       start_time      |-> UNDEF,
                       notes           |-> OrEmpty(d.notes),
                       pickup_city     |-> OrEmpty(d.pickup_city),
                       pickup_state    |-> OrEmpty(d.pickup_state),
                       dropoff_city    |-> OrEmpty(d.dropoff_city),
                       dropoff_state   |-> OrEmpty(d.dropoff_state)]]

\* locateFields: looked up in the whole document, so the first row's fields
LocateFields(abs) == { <<1, f>> : f \in DepFields \ abs }

\* forceSet: writes whatever the field holds
ForceSet(vals, abs, el, v) ==
    IF el \notin LocateFields(abs) THEN vals
    ELSE [vals EXCEPT ![el] = IF v = UNDEF THEN "" ELSE v]

\* setDisabled
SetDisabled(dis, abs, flag) ==
    [e \in DOMAIN dis |-> IF e \in LocateFields(abs) THEN flag ELSE dis[e]]

\* the forceSet calls written without the missing-element test: reading the
\* value of the first missing field throws, and the fields after it in the
\* order of the calls are never reached
SpinnerApply_StopAtMissing(vals, abs, d) ==
    LET order == <<"pickup_address", "dropoff_address", "start_time", "notes",
                   "pickup_city", "pickup_state", "dropoff_city", "dropoff_state">>
        key(f) == IF f = "start_time" THEN "pickup_time" ELSE f
        reached(k) == \A j \in 1..k : order[j] \notin abs
        wanted(k) == k <= 4 \/ d[key(order[k])] # ""
    IN  [e \in DOMAIN vals |->
            IF e[1] = 1 /\ \E k \in 1..8 : order[k] = e[2] /\ reached(k) /\ wanted(k)
            THEN (IF d[key(e[2])] = UNDEF THEN "" ELSE d[key(e[2])])
            ELSE vals[e]]

\* the eight forceSet calls of handleClientChange, in order
SpinnerApply(vals, abs, d) ==
    LET v1 == ForceSet(vals, abs, <<1, "pickup_address">>,  d.pickup_address)
        v2 == ForceSet(v1,   abs, <<1, "dropoff_address">>, d.dropoff_address)
        v3 == ForceSet(v2,   abs, <<1, "start_time">>,      d.pickup_time)
        v4 == ForceSet(v3,   abs, <<1, "notes">>,           d.notes)
        v5 == IF d.pickup_city # ""
              THEN ForceSet(v4, abs, <<1, "pickup_city">>, d.pickup_city) ELSE v4
        v6 == IF d.pickup_state # ""
              THEN ForceSet(v5, abs, <<1, "pickup_state">>, d.pickup_state) ELSE v5
        v7 == IF d.dropoff_city # ""
              THEN ForceSet(v6, abs, <<1, "dropoff_city">>, d.dropoff_city) ELSE v6
    IN  IF d.dropoff_state # ""
        THEN ForceSet(v7, abs, <<1, "dropoff_state">>, d.dropoff_state) ELSE v7

\* the filled list handleClientChange builds next to those forceSet calls: a
\* name is pushed whenever forceSet returned true, that is whenever the field
\* was located
SpinnerFilled(abs, d) ==
    LET here(f) == <<1, f>> \in LocateFields(abs)
    IN  (IF here("pickup_address")  THEN <<"pickup_address">> ELSE <<>>)
        \o (IF here("dropoff_address") THEN <<"dropoff_address">> ELSE <<>>)
        \o (IF here("start_time")      THEN <<"start_time/pickup_time">> ELSE <<>>)
        \o (IF here("notes")           THEN <<"notes">> ELSE <<>>)
        \o (IF d.pickup_city # ""  /\ here("pickup_city")   THEN <<"pickup_city">> ELSE <<>>)
        \o (IF d.pickup_state # "" /\ here("pickup_state")  THEN <<"pickup_state">> ELSE <<>>)
        \o (IF d.dropoff_city # "" /\ here("dropoff_city")  THEN <<"dropoff_city">> ELSE <<>>)
        \o (IF d.dropoff_state # "" /\ here("dropoff_state") THEN <<"dropoff_state">> ELSE <<>>)

\* handleClientChange up to its await, run n times (once per listener the event
\* reaches) on control value v: nothing unless trim(v) is all digits; otherwise
\* show the spinner, disable the fields and start the fetch.
SpinnerStart(v, n) ==
    IF IsDigits(Trim(v)) /\ n > 0
    THEN /\ Len(calls) + n <= MaxCalls
         /\ spinner' = TRUE
         /\ disabled' = SetDisabled(disabled, absent, TRUE)
         /\ calls' = AppendN(calls, NewCall(1, Trim(v)), n)
    ELSE UNCHANGED <<spinner, disabled, calls>>

\* a handleClientChange whose cleanup ends the try block instead of sitting in a
\* finally: the early return on null defaults skips it
SpinnerResume_CleanupInTry(resp, vals, dis, abs) ==
    LET d == GetClientDefaults(resp)
    IN  IF d.null
        THEN [value |-> vals, spinner |-> spinner, disabled |-> dis, exits |-> 0]
        ELSE [value    |-> SpinnerApply(vals, abs, d.rec),
              spinner  |-> FALSE,
              disabled |-> SetDisabled(dis, abs, FALSE),
              exits    |-> 1]

\* handleClientChange from its await on (fetch settled with resp): apply unless
\* the defaults are null; the finally block hides the spinner and re-enables.
SpinnerResume(resp, vals, dis, abs) ==
    LET d == GetClientDefaults(resp)
    IN  [value    |-> IF d.null THEN vals ELSE SpinnerApply(vals, abs, d.rec),
         spinner  |-> FALSE,
         disabled |-> SetDisabled(dis, abs, FALSE),
         exits    |-> 1]

SpinnerInit ==
    /\ script = "spinner"
    /\ loaded = FALSE
    /\ nrows = 1
    /\ widget = "select"
    /\ absent \in AbsentChoices
    /\ \E doc \in InitialDocs(1, absent) :
          /\ client = doc.client
          /\ value = doc.value
    /\ disabled \in { [e \in FieldsOf(1) |-> FALSE],
                      [e \in FieldsOf(1) |-> e[2] = "notes"] }
    /\ spinner = FALSE
    /\ listeners = <<>>
    /\ calls = <<>>
    /\ listAttr = [e \in FieldsOf(1) |-> NoList]
    /\ datalists = <<>>
    /\ NoTypeahead

\* the ready callback: bind change and input on the select, prefill on edit
SpinnerReady ==
    /\ script = "spinner"
    /\ ~loaded
    /\ loaded' = TRUE
    /\ listeners' = <<[on |-> 1, type |-> "change", pk |-> 1],
                     [on |-> 1, type |-> "input", pk |-> 1]>>
    /\ SpinnerStart(client[1], IF client[1] # <<>> THEN 1 ELSE 0)
    /\ UNCHANGED <<typeahead, script, nrows, widget, absent, client, value, listAttr, datalists>>

\* listeners of the select that an event of the given type reaches
SelectListeners(type) ==
    { i \in DOMAIN listeners : listeners[i].on = 1 /\ listeners[i].type = type }

\* the operator picks option v: the select fires input, then change
SpinnerPick(v) ==
    /\ script = "spinner"
    /\ loaded
    /\ client' = [client EXCEPT ![1] = v]
    /\ SpinnerStart(v, Cardinality(SelectListeners("input"))
                          + Cardinality(SelectListeners("change")))
    /\ UNCHANGED <<typeahead, script, loaded, nrows, widget, absent, value, listeners,
                   listAttr, datalists>>

\* the operator types into an enabled dependent field
SpinnerEdit(f, v) ==
    /\ script = "spinner"
    /\ loaded
    /\ f \notin absent
    /\ ~disabled[<<1, f>>]
    /\ value[<<1, f>>] # v
    /\ value' = [value EXCEPT ![<<1, f>>] = v]
    /\ UNCHANGED <<typeahead, script, loaded, nrows, widget, absent, client, disabled,
                   spinner, listeners, calls, listAttr, datalists>>

\* the fetch of invocation i settles with resp and the handler runs to its
\* end; the events it dispatched on the fields it wrote have bubbled meanwhile
SpinnerSettle(i, resp) ==
    /\ script = "spinner"
    /\ i \in Pending
    /\ resp \in Responses(calls[i].cid)
    /\ LET out == SpinnerResume(resp, value, disabled, absent)
           d   == GetClientDefaults(resp)
           \* handleClientChange runs started by the events forceSet dispatched
           n   == IF d.null \/ ~IsDigits(Trim(client[1])) THEN 0
                  ELSE Len(SpinnerFilled(absent, d.rec))
                       * EchoesPerField(listeners, script, 1)
       IN  /\ value' = out.value
           /\ spinner' = out.spinner
           /\ disabled' = out.disabled
           /\ calls' = AppendN(ReturnInPlace(calls, i, Returned(out.exits, FALSE)),
                               NewCall(1, Trim(client[1])), n)
    /\ UNCHANGED <<typeahead, script, loaded, nrows, widget, absent, client, listeners,
                   listAttr, datalists>>

SpinnerResponse == \E i \in 1..MaxCalls, resp \in AllResponses : SpinnerSettle(i, resp)

SpinnerNext ==
    \/ SpinnerReady
    \/ \E v \in ClientValues : SpinnerPick(v)
    \/ \E f \in TypedFields, v \in TypedValues : SpinnerEdit(f, v)
    \/ SpinnerResponse

SpinnerSpec == SpinnerInit /\ [][SpinnerNext]_vars

\* every fetch eventually settles
FairSpinnerSpec == SpinnerSpec /\ WF_vars(SpinnerResponse)

-----------------------------------------------------------------------------
(* "admin": src/scheduler/scheduler/admin_client_defaults.js *)

\* querySelector found no client input
NoInput == 0

\* the dependent fields applyClientDefaults looks up
AdminFields == {"pickup_address", "pickup_city", "pickup_state",
                "dropoff_address", "dropoff_city", "dropoff_state"}

\* rootEl.querySelector(sel): the first match in document order inside the root,
\* so the first row's element when the root is the change-form
FirstRow(root, n) == IF root = Form THEN (IF n >= 1 THEN 1 ELSE NoInput) ELSE root

\* currentClientId of the bindRow closure that captured client input pk: a
\* hidden (autocomplete) input's value is taken as it is when non-empty, a
\* raw-id input's value only when all digits; <<>> stands for null
CurrentClientId(pk, wid, cl) ==
    IF pk = NoInput THEN <<>>
    ELSE IF wid = "hidden" /\ cl[pk] # <<>> THEN cl[pk]
    ELSE IF cl[pk] # <<>> /\ IsDigits(cl[pk]) THEN cl[pk]
    ELSE <<>>

\* v && String(v).trim() !== ''
NonBlank(v) == v # UNDEF /\ v # "" /\ v \notin Whitespace

\* ensureDatalist for each located field of the row: the datalist with id
\* <<field, clientId>> (the id prefix is per field) is emptied and refilled
\* with the client's default, and the field's list attribute is set to it
EnsureDatalists(la, dl, row, fs, cid, c) ==
    [listAttr  |-> [e \in DOMAIN la |->
                       IF e[1] = row /\ e[2] \in fs THEN <<e[2], cid>> ELSE la[e]],
     datalists |-> [id \in DOMAIN dl \cup { <<f, cid>> : f \in fs } |->
                       IF id[2] = cid /\ id[1] \in fs
                       THEN (IF NonBlank(c[id[1]]) THEN <<c[id[1]]>> ELSE <<>>)
                       ELSE dl[id]]]

\* "auto-fill where empty" written without the emptiness test
FillIfEmpty_Always(vals, row, fs, c) ==
    [e \in DOMAIN vals |->
        IF e[1] = row /\ e[2] \in fs THEN OrEmpty(c[e[2]]) ELSE vals[e]]

\* auto-fill where empty: each located field of the row whose value is empty
\* gets c.<field> || ''
FillIfEmpty(vals, row, fs, c) ==
    [e \in DOMAIN vals |->
        IF e[1] = row /\ e[2] \in fs /\ vals[e] = ""
        THEN OrEmpty(c[e[2]]) ELSE vals[e]]

\* applyClientDefaults from its await on.  A rejected fetch, an unparsable
\* body and the TypeError of reading a missing json.client all end in the
\* catch block before anything was written; a body without a true ok returns.
AdminResume(root, cid, resp, vals, la, dl, abs, n) ==
    LET row == FirstRow(root, n)
        fs  == AdminFields \ abs
        c   == resp.body.rec
    IN  IF resp.kind = "json" /\ resp.body.ok = "true" /\ resp.body.hasClient
        THEN [value |-> FillIfEmpty(vals, row, fs, c)]
             @@ EnsureDatalists(la, dl, row, fs, cid, c)
        ELSE [value |-> vals, listAttr |-> la, datalists |-> dl]

\* bindRow's closure for a root
Binding(root, n) == [on |-> root, type |-> "change", pk |-> FirstRow(root, n)]

\* the roots bindAll visits, in document order: '.inline-related, .change-form'
RECURSIVE BindRoots(_)
BindRoots(n) == IF n = 0 THEN <<Form>> ELSE Append(BindRoots(n - 1), n)

\* the applyClientDefaults invocations a sequence of bindings starts: one per
\* binding whose currentClientId is not null
RECURSIVE StartedBy(_, _, _)
StartedBy(ls, wid, cl) ==
    IF ls = <<>> THEN <<>>
    ELSE LET cid == CurrentClientId(Head(ls).pk, wid, cl)
         IN  (IF cid # <<>> THEN <<NewCall(Head(ls).on, cid)>> ELSE <<>>)
             \o StartedBy(Tail(ls), wid, cl)

\* bindAll on a document of n rows: every root gets one more change listener
\* and its initial apply
BindAll(n, wid, cl) ==
    LET bs == [k \in 1..(n + 1) |-> Binding(BindRoots(n)[k], n)]
    IN  /\ Len(calls) + Len(StartedBy(bs, wid, cl)) <= MaxApplies
        /\ listeners' = listeners \o bs
        /\ calls' = calls \o StartedBy(bs, wid, cl)

\* a change event whose target lies in row r bubbles through the row's root
\* and then the change-form's: every listener there runs
AdminDispatch(r, cl) ==
    LET reached == SelectSeq(listeners, LAMBDA l : l.on = r)
                   \o SelectSeq(listeners, LAMBDA l : l.on = Form)
    IN  /\ Len(calls) + Len(StartedBy(reached, widget, cl)) <= MaxApplies
        /\ calls' = calls \o StartedBy(reached, widget, cl)

\* values the operator puts into a row's client control: a client id, or text
\* that is no id
AdminClientValues == { <<"7">>, <<"a", "b">> }

\* the dependent field the operator edits by hand
AdminTypedFields == {"pickup_address"}

\* an admin change-form of n inline rows, lacking the fields abs, before
\* DOMContentLoaded
AdminPage(n, abs) ==
    /\ script = "admin"
    /\ loaded = FALSE
    /\ nrows = n
    /\ widget \in {"raw", "hidden"}
    /\ absent = abs
    /\ \E doc \in InitialDocs(nrows, absent) :
          /\ client = doc.client
          /\ value = doc.value
    /\ disabled = [e \in FieldsOf(nrows) |-> FALSE]
    /\ spinner = FALSE
    /\ listeners = <<>>
    /\ calls = <<>>
    /\ listAttr = [e \in FieldsOf(nrows) |-> NoList]
    /\ datalists = <<>>
    /\ NoTypeahead

\* change-forms of one or two inline rows
AdminInit == \E n \in 1..2, abs \in AbsentChoices : AdminPage(n, abs)

\* DOMContentLoaded: bindAll
AdminDOMContentLoaded ==
    /\ script = "admin"
    /\ ~loaded
    /\ loaded' = TRUE
    /\ BindAll(nrows, widget, client)
    /\ UNCHANGED <<typeahead, script, nrows, widget, absent, client, value, disabled,
                   spinner, listAttr, datalists>>

\* "Add another": a new empty row is inserted, formset:added fires, bindAll
AdminFormsetAdded ==
    /\ script = "admin"
    /\ loaded
    /\ nrows < MaxRows
    /\ nrows' = nrows + 1
    /\ client' = Append(client, <<>>)
    /\ value' = [e \in FieldsOf(nrows + 1) |->
                    IF e[1] <= nrows THEN value[e] ELSE NewRow[e[2]]]
    /\ disabled' = [e \in FieldsOf(nrows + 1) |->
                    IF e[1] <= nrows THEN disabled[e] ELSE FALSE]
    /\ listAttr' = [e \in FieldsOf(nrows + 1) |->
                    IF e[1] <= nrows THEN listAttr[e] ELSE NoList]
    /\ BindAll(nrows + 1, widget, client')
    /\ UNCHANGED <<typeahead, script, loaded, widget, absent, spinner, datalists>>

\* the operator sets the client control of row r to v; its change event bubbles
AdminPick(r, v) ==
    /\ script = "admin"
    /\ loaded
    /\ r \in 1..nrows
    /\ client[r] # v
    /\ client' = [client EXCEPT ![r] = v]
    /\ AdminDispatch(r, client')
    /\ UNCHANGED <<typeahead, script, loaded, nrows, widget, absent, value, disabled,
                   spinner, listeners, listAttr, datalists>>

\* the operator types into a dependent field of row r; the input's change
\* event bubbles to the same listeners
AdminEdit(r, f, v) ==
    /\ script = "admin"
    /\ loaded
    /\ r \in 1..nrows
    /\ f \notin absent
    /\ value[<<r, f>>] # v
    /\ value' = [value EXCEPT ![<<r, f>>] = v]
    /\ AdminDispatch(r, client)
    /\ UNCHANGED <<typeahead, script, loaded, nrows, widget, absent, client, disabled,
                   spinner, listeners, listAttr, datalists>>

\* the fetch of invocation i settles with resp; applyClientDefaults finishes
AdminSettle(i, resp) ==
    /\ script = "admin"
    /\ i \in Pending
    /\ resp \in Responses(calls[i].cid)
    /\ LET out == AdminResume(calls[i].root, calls[i].cid, resp,
                              value, listAttr, datalists, absent, nrows)
       IN  /\ value' = out.value
           /\ listAttr' = out.listAttr
           /\ datalists' = out.datalists
    /\ calls' = ReturnToFront(calls, i, Returned(0, FALSE))
    /\ UNCHANGED <<typeahead, script, loaded, nrows, widget, absent, client, disabled,
                   spinner, listeners>>

AdminResponse == \E i \in 1..MaxApplies, resp \in AllResponses : AdminSettle(i, resp)

AdminNext ==
    \/ AdminDOMContentLoaded
    \/ AdminFormsetAdded
    \/ \E r \in Rows, v \in AdminClientValues : AdminPick(r, v)
    \/ \E r \in Rows, f \in AdminTypedFields, v \in TypedValues : AdminEdit(r, f, v)
    \/ AdminResponse

AdminSpec == AdminInit /\ [][AdminNext]_vars

-----------------------------------------------------------------------------
(* "body": src/scheduler/static/scheduler/js/autofill_client_admin.js *)

\* fetchMini: the parsed body, or null when the request fails, the status is
\* not ok or the content type is not JSON
FetchMini(resp) ==
    IF resp.kind = "json"
    THEN [null |-> FALSE, data |-> resp.body]
    ELSE [null |-> TRUE, data |-> NoBody]

\* the fields the body listener sets, in order
BodyFields == <<"pickup_address", "dropoff_address", "start_time", "notes">>

\* set(el, v): nothing for a missing element, else el.value = v || ""
BodySet(vals, abs, el, v) ==
    IF el[2] \in abs THEN vals ELSE [vals EXCEPT ![el] = OrEmpty(v)]

\* the four set calls on the fields of row r
BodyApply(vals, abs, r, d) ==
    LET v1 == BodySet(vals, abs, <<r, "pickup_address">>,  d.pickup_address)
        v2 == BodySet(v1,   abs, <<r, "dropoff_address">>, d.dropoff_address)
        v3 == BodySet(v2,   abs, <<r, "start_time">>,
                      OrElse(d.pickup_time, d.start_time))
    IN  BodySet(v3, abs, <<r, "notes">>, d.notes)

\* the fields of BodyFields that findField finds in a row
BodyWritten(abs) == SelectSeq(BodyFields, LAMBDA f : f \notin abs)

\* the change listener from its await on: nothing when fetchMini gave null
BodyResume(r, resp, vals, abs) ==
    LET d == FetchMini(resp)
    IN  IF d.null THEN [value |-> vals, written |-> 0]
        ELSE [value   |-> BodyApply(vals, abs, r, d.data.rec),
              written |-> Len(BodyWritten(abs))]

\* a change event on the control (kind "control") or on a field (kind
\* "field") of row r reaches the body listener: nothing unless the target is
\* the client select and its value is all digits; else the fetch starts
BodyStart(kind, r, cl) ==
    LET n == IF IsDigits(cl[r])
             THEN Cardinality(Runs(listeners, "body", "change", kind, r)) ELSE 0
    IN  /\ Len(calls) + n <= MaxCalls
        /\ calls' = AppendN(calls, NewCall(r, cl[r]), n)

\* a form of one or two rows, before the ready callback
BodyInit ==
    /\ script = "body"
    /\ loaded = FALSE
    /\ nrows \in 1..2
    /\ widget = "select"
    /\ absent \in AbsentChoices
    /\ \E doc \in InitialDocs(nrows, absent) :
          /\ client = doc.client
          /\ value = doc.value
    /\ disabled = [e \in FieldsOf(nrows) |-> FALSE]
    /\ spinner = FALSE
    /\ listeners = <<>>
    /\ calls = <<>>
    /\ listAttr = [e \in FieldsOf(nrows) |-> NoList]
    /\ datalists = <<>>
    /\ NoTypeahead

\* the ready callback: one change listener on document.body, no initial pass
BodyReady ==
    /\ script = "body"
    /\ ~loaded
    /\ loaded' = TRUE
    /\ listeners' = <<[on |-> Form, type |-> "change", pk |-> NoInput]>>
    /\ UNCHANGED <<typeahead, script, nrows, widget, absent, client, value,
                   disabled, spinner, calls, listAttr, datalists>>

\* the operator picks v in row r's select; its change event bubbles to body
BodyPick(r, v) ==
    /\ script = "body"
    /\ loaded
    /\ r \in 1..nrows
    /\ client[r] # v
    /\ client' = [client EXCEPT ![r] = v]
    /\ BodyStart("control", r, client')
    /\ UNCHANGED <<typeahead, script, loaded, nrows, widget, absent, value,
                   disabled, spinner, listeners, listAttr, datalists>>

\* the operator types into a dependent field of row r; its change event
\* bubbles to body as well
BodyEdit(r, f, v) ==
    /\ script = "body"
    /\ loaded
    /\ r \in 1..nrows
    /\ f \notin absent
    /\ value[<<r, f>>] # v
    /\ value' = [value EXCEPT ![<<r, f>>] = v]
    /\ BodyStart("field", r, client)
    /\ UNCHANGED <<typeahead, script, loaded, nrows, widget, absent, client,
                   disabled, spinner, listeners, listAttr, datalists>>

\* the fetch of invocation i settles with resp and the listener runs to its
\* end; the events set dispatched on the fields it wrote have bubbled to body
BodySettle(i, resp) ==
    /\ script = "body"
    /\ i \in Pending
    /\ resp \in Responses(calls[i].cid)
    /\ LET r   == calls[i].root
           out == BodyResume(r, resp, value, absent)
           n   == IF IsDigits(client[r])
                  THEN out.written * EchoesPerField(listeners, script, r) ELSE 0
       IN  /\ value' = out.value
           /\ calls' = AppendN(ReturnToFront(calls, i, Returned(0, FALSE)),
                               NewCall(r, client[r]), n)
    /\ UNCHANGED <<typeahead, script, loaded, nrows, widget, absent, client,
                   disabled, spinner, listeners, listAttr, datalists>>

BodyResponse == \E i \in 1..MaxCalls, resp \in AllResponses : BodySettle(i, resp)

BodyNext ==
    \/ BodyReady
    \/ \E r \in 1..2, v \in AdminClientValues : BodyPick(r, v)
    \/ \E r \in 1..2, f \in AdminTypedFields, v \in TypedValues : BodyEdit(r, f, v)
    \/ BodyResponse

BodySpec == BodyInit /\ [][BodyNext]_vars

-----------------------------------------------------------------------------
(* "public": src/scheduler/static/add_schedule_defaults.js *)

\* the dependent fields onClientChange looks up by id
PublicFields == {"pickup_address", "pickup_city", "pickup_state",
                 "dropoff_address", "dropoff_city", "dropoff_state"}

\* fetchClientDefaults: the client record, null, or a rejected promise.  Nothing
\* catches a rejected fetch (network error) or a rejected resp.json() (a 2xx
\* answer that is not JSON); json.ok ? json.client : null is null or undefined
\* for a body without a true ok or without client.
FetchClientDefaults(resp) ==
    IF resp.kind \in {"neterr", "html"}
    THEN [rejected |-> TRUE, null |-> TRUE, rec |-> NoRecord]
    ELSE IF resp.kind = "http"
    THEN [rejected |-> FALSE, null |-> TRUE, rec |-> NoRecord]
    ELSE IF resp.body.ok = "true" /\ resp.body.hasClient
    THEN [rejected |-> FALSE, null |-> FALSE, rec |-> resp.body.rec]
    ELSE [rejected |-> FALSE, null |-> TRUE, rec |-> NoRecord]

\* onClientChange from its await on: a rejection leaves the handler at once
\* (its promise is rejected, nobody handles it); null defaults return; else
\* fill the empty fields and rebuild the datalists
PublicResume(cid, resp, vals, la, dl, abs) ==
    LET c  == FetchClientDefaults(resp)
        fs == PublicFields \ abs
    IN  IF c.rejected \/ c.null
        THEN [value |-> vals, listAttr |-> la, datalists |-> dl, raised |-> c.rejected]
        ELSE [value |-> FillIfEmpty(vals, 1, fs, c.rec), raised |-> FALSE]
             @@ EnsureDatalists(la, dl, 1, fs, cid, c.rec)

\* onClientChange up to its await: nothing unless #id_client holds digits only
PublicStart(v) ==
    IF IsDigits(v)
    THEN /\ Len(calls) < MaxCalls
         /\ calls' = Append(calls, NewCall(1, v))
    ELSE UNCHANGED calls

PublicInit ==
    /\ script = "public"
    /\ loaded = FALSE
    /\ nrows = 1
    /\ widget = "select"
    /\ absent \in AbsentChoices
    /\ \E doc \in InitialDocs(1, absent) :
          /\ client = doc.client
          /\ value = doc.value
    /\ disabled = [e \in FieldsOf(1) |-> FALSE]
    /\ spinner = FALSE
    /\ listeners = <<>>
    /\ calls = <<>>
    /\ listAttr = [e \in FieldsOf(1) |-> NoList]
    /\ datalists = <<>>
    /\ NoTypeahead

\* a DOMContentLoaded handler that binds the listener and stops there
PublicDOMContentLoaded_BindOnly ==
    /\ script = "public"
    /\ ~loaded
    /\ loaded' = TRUE
    /\ listeners' = <<[on |-> 1, type |-> "change", pk |-> 1]>>
    /\ UNCHANGED <<typeahead, script, nrows, widget, absent, client, value,
                   disabled, spinner, calls, listAttr, datalists>>

\* DOMContentLoaded: bind change on #id_client, run onClientChange once
PublicDOMContentLoaded ==
    /\ script = "public"
    /\ ~loaded
    /\ loaded' = TRUE
    /\ listeners' = <<[on |-> 1, type |-> "change", pk |-> 1]>>
    /\ PublicStart(client[1])
    /\ UNCHANGED <<typeahead, script, nrows, widget, absent, client, value, disabled,
                   spinner, listAttr, datalists>>

\* the operator picks client v: the change listener runs onClientChange
PublicPick(v) ==
    /\ script = "public"
    /\ loaded
    /\ client[1] # v
    /\ client' = [client EXCEPT ![1] = v]
    /\ PublicStart(v)
    /\ UNCHANGED <<typeahead, script, loaded, nrows, widget, absent, value, disabled,
                   spinner, listeners, listAttr, datalists>>

\* the operator types into a dependent field (nothing listens)
PublicEdit(f, v) ==
    /\ script = "public"
    /\ loaded
    /\ f \notin absent
    /\ value[<<1, f>>] # v
    /\ value' = [value EXCEPT ![<<1, f>>] = v]
    /\ UNCHANGED <<typeahead, script, loaded, nrows, widget, absent, client, disabled,
                   spinner, listeners, calls, listAttr, datalists>>

\* the fetch of invocation i settles with resp; onClientChange finishes
PublicSettle(i, resp) ==
    /\ script = "public"
    /\ i \in Pending
    /\ resp \in Responses(calls[i].cid)
    /\ LET out == PublicResume(calls[i].cid, resp, value, listAttr, datalists, absent)
       IN  /\ value' = out.value
           /\ listAttr' = out.listAttr
           /\ datalists' = out.datalists
           /\ calls' = ReturnToFront(calls, i, Returned(0, out.raised))
    /\ UNCHANGED <<typeahead, script, loaded, nrows, widget, absent, client, disabled,
                   spinner, listeners>>

PublicResponse == \E i \in 1..MaxCalls, resp \in AllResponses : PublicSettle(i, resp)

PublicNext ==
    \/ PublicDOMContentLoaded
    \/ \E v \in ClientValues : PublicPick(v)
    \/ \E f \in TypedFields, v \in TypedValues : PublicEdit(f, v)
    \/ PublicResponse

PublicSpec == PublicInit /\ [][PublicNext]_vars

-----------------------------------------------------------------------------
(* The two fill-if-empty scripts together: the public form, or an admin
   change-form that starts with one inline row (more are added) *)

FillInit == PublicInit \/ AdminPage(1, {})

FillNext == PublicNext \/ AdminNext

FillSpec == FillInit /\ [][FillNext]_vars

-----------------------------------------------------------------------------
(* Page load of each autofill script: the ready callbacks and the responses
   to the fetches they start, with no operator action *)

LoadInit == SpinnerInit \/ PublicInit \/ AdminInit

LoadNext ==
    \/ SpinnerReady
    \/ PublicDOMContentLoaded
    \/ AdminDOMContentLoaded
    \/ SpinnerResponse
    \/ PublicResponse
    \/ AdminResponse

LoadSpec == LoadInit /\ [][LoadNext]_vars

\* pages that lack some of the dependent fields: the spinner form and a
\* one-row admin page
PartialInit ==
    \/ SpinnerInit /\ absent # {}
    \/ \E abs \in AbsentChoices \ {{}} : AdminPage(1, abs)

\* the operator changes the client control only; what is in the fields comes
\* from the record being edited
PartialNext ==
    \/ SpinnerReady
    \/ \E v \in ClientValues : SpinnerPick(v)
    \/ SpinnerResponse
    \/ AdminDOMContentLoaded
    \/ AdminFormsetAdded
    \/ \E r \in Rows, v \in AdminClientValues : AdminPick(r, v)
    \/ AdminResponse

PartialSpec == PartialInit /\ [][PartialNext]_vars

\* the pages whose reconciliation runs behind a listener for bubbling events:
\* the spinner form, the body-listener form and a one-row admin page
EchoInit == SpinnerInit \/ BodyInit \/ AdminPage(1, {})

\* no inline row is added to the admin page
EchoNext ==
    \/ SpinnerNext
    \/ BodyNext
    \/ AdminDOMContentLoaded
    \/ \E r \in Rows, v \in AdminClientValues : AdminPick(r, v)
    \/ \E r \in Rows, f \in AdminTypedFields, v \in TypedValues : AdminEdit(r, f, v)
    \/ AdminResponse

EchoSpec == EchoInit /\ [][EchoNext]_vars

-----------------------------------------------------------------------------
(* "typeahead": src/scheduler/static/scheduler/client_typeahead.js, on a page
   that also loads the "spinner" script *)

\* the quiet interval of the debounced run, in milliseconds
Quiet == 250

\* the page size run asks for
PageSize == 20

\* the longest step of the clock, in milliseconds
Tick == 125

\* most search requests ever sent on one page
MaxSearches == 2

\* most items of a result page
MaxResults == 2

\* values the operator may leave in the search box
SearchValues == { <<>>, <<" ">>, <<"J", " ">> }

\* the SearchResultItems the backend may return: one with a name, one without
Items == { [id |-> <<"7">>, name |-> "Jane Doe"], [id |-> <<"8">>, name |-> UNDEF] }

\* the result lists of at most MaxResults items
ResultLists == UNION { [1..n -> Items] : n \in 0..MaxResults }

\* { results: [], has_more: false }
EmptyPage == [hasResults |-> TRUE, results |-> <<>>, has_more |-> FALSE]

\* JSON bodies the search endpoint may answer with: a page (only a full
\* page may say there is more), or an object without a results key
Pages ==
    { [hasResults |-> TRUE, results |-> R, has_more |-> FALSE] : R \in ResultLists }
    \cup { [hasResults |-> TRUE, results |-> R, has_more |-> TRUE] :
               R \in [1..MaxResults -> Items] }
    \cup { [hasResults |-> FALSE, results |-> <<>>, has_more |-> FALSE] }

\* How the search fetch may settle: the request fails ("neterr"), the status
\* is not 2xx ("http"), the content type is not JSON ("html"), the content
\* type is JSON but the body does not parse ("badjson"), or a JSON body.
SearchResponses ==
    { [kind |-> k, page |-> EmptyPage] : k \in {"neterr", "http", "html", "badjson"} }
    \cup { [kind |-> "json", page |-> p] : p \in Pages }

\* the request searchClients(q, limit) sends: q is set only when non-empty
SearchRequest(q, limit) ==
    [q |-> q, hasQ |-> q # <<>>, limit |-> limit]

\* searchClients from its await on: the empty page for a non-2xx status or a
\* non-JSON content type, the parsed body otherwise; a rejected fetch or a
\* rejected res.json() rejects the returned promise
SearchClients(resp) ==
    IF resp.kind \in {"neterr", "badjson"}
    THEN [raised |-> TRUE, page |-> EmptyPage]
    ELSE IF resp.kind \in {"http", "html"}
    THEN [raised |-> FALSE, page |-> EmptyPage]
    ELSE [raised |-> FALSE, page |-> resp.page]

\* the option rebuildOptions inserts first
Placeholder == [value |-> <<>>, label |-> <<"- Select client -">>]

\* the option of a result item: r.name || `Client #${r.id}`
OptionOf(r) ==
    [value |-> r.id,
     label |-> IF r.name = UNDEF \/ r.name = "" THEN <<"Client #">> \o r.id
               ELSE <<r.name>>]

\* a rebuildOptions that never looks for the old value among the new options
RebuildOptions_NoRestore(old, results) ==
    [options  |-> <<Placeholder>> \o [k \in 1..Len(results) |-> OptionOf(results[k])],
     selected |-> <<>>]

\* rebuildOptions(select, results) up to its dispatchEvent calls, old being
\* select.value on entry: the new options and the value the select then has
\* (the first option is selected unless old is found among the new ones)
RebuildOptions(old, results) ==
    LET opts == <<Placeholder>> \o [k \in 1..Len(results) |-> OptionOf(results[k])]
    IN  [options  |-> opts,
         selected |-> IF old # <<>> /\ \E k \in DOMAIN opts : opts[k].value = old
                      THEN old ELSE <<>>]

\* debounce's returned function without its clearTimeout: every call leaves
\* one more timeout pending
Debounce_NoClear(ts) == Append(ts, Quiet)

\* debounce's returned function: clearTimeout(t), then t = setTimeout(fn, ms)
Debounce(ts) == <<Quiet>>

\* the status line run writes after a rebuild
FoundStatus(q, page) ==
    IF q # <<>> /\ page.has_more THEN Status("Showing", Len(page.results))
    ELSE IF q # <<>> THEN Status("Found", Len(page.results))
    ELSE Status("", 0)

\* a run that answers an empty query on the client side: the select is
\* emptied whatever the backend returned
RunResume_BlankIsEmpty(q, resp, old, opts) ==
    LET r == SearchClients(resp)
        b == RebuildOptions(old, IF q = <<>> THEN <<>> ELSE r.page.results)
    IN  IF r.raised
        THEN [options |-> opts, selected |-> old, emitted |-> <<>>,
              status |-> Status("Search failed", 0)]
        ELSE IF ~r.page.hasResults
        THEN [options |-> <<Placeholder>>, selected |-> <<>>, emitted |-> <<>>,
              status |-> Status("Search failed", 0)]
        ELSE [options |-> b.options, selected |-> b.selected,
              emitted |-> <<"input", "change">>,
              status |-> FoundStatus(q, r.page)]

\* run from its await on, old being select.value at that moment.  A rejected
\* searchClients lands in the catch block with the select untouched.  A body
\* without results makes rebuildOptions throw at its for loop, after it
\* emptied the select and inserted the placeholder: the catch block runs
\* and no event was dispatched.
RunResume(q, resp, old, opts) ==
    LET r == SearchClients(resp)
        b == RebuildOptions(old, r.page.results)
    IN  IF r.raised
        THEN [options |-> opts, selected |-> old, emitted |-> <<>>,
              status |-> Status("Search failed", 0)]
        ELSE IF ~r.page.hasResults
        THEN [options |-> <<Placeholder>>, selected |-> <<>>, emitted |-> <<>>,
              status |-> Status("Search failed", 0)]
        ELSE [options |-> b.options, selected |-> b.selected,
              emitted |-> <<"input", "change">>,
              status |-> FoundStatus(q, r.page)]

\* the select as the server rendered it: an empty choice and the known clients
ServerOptions ==
    << [value |-> <<>>,    label |-> <<"---------">>],
       [value |-> <<"7">>, label |-> <<"Jane Doe">>],
       [value |-> <<"8">>, label |-> <<"Client #", "8">>] >>

\* s without its i-th element
Without(s, i) == SubSeq(s, 1, i - 1) \o SubSeq(s, i + 1, Len(s))

\* the smallest element of a non-empty sequence of numbers
SmallestOf(ts) == CHOOSE t \in { ts[k] : k \in DOMAIN ts } : \A k \in DOMAIN ts : t <= ts[k]

\* a page with the client select and client_typeahead.js, before any ready
\* callback ran; sc says which autofill script the page loads besides
TypeaheadPage(sc) ==
    /\ script = sc
    /\ loaded = FALSE
    /\ nrows = 1
    /\ widget = "select"
    /\ absent = {}
    /\ \E doc \in InitialDocs(1, absent) :
          /\ client = doc.client
          /\ value = doc.value
    /\ disabled = [e \in FieldsOf(1) |-> FALSE]
    /\ spinner = FALSE
    /\ listeners = <<>>
    /\ calls = <<>>
    /\ listAttr = [e \in FieldsOf(1) |-> NoList]
    /\ datalists = <<>>
    /\ enhanced = FALSE
    /\ search = <<>>
    /\ timers = <<>>
    /\ options = ServerOptions
    /\ searches = <<>>
    /\ issued = 0
    /\ status = Status("", 0)
    /\ emitted = <<>>

\* the type-ahead next to the "spinner" script
TypeaheadInit == TypeaheadPage("spinner")

\* the type-ahead on a page that loads no autofill script
SearchInit == TypeaheadPage("none")

\* the type-ahead's ready callback: injectUI puts the search box above the
\* select and binds run to its input event; no search on load
TypeaheadReady ==
    /\ ~enhanced
    /\ enhanced' = TRUE
    /\ UNCHANGED <<script, loaded, nrows, widget, absent, client, value, disabled,
                   spinner, listeners, calls, listAttr, datalists>>
    /\ UNCHANGED <<search, timers, options, searches, issued, status, emitted>>

\* an input event on the search box, which now holds v: the debounced run
TypeaheadInput(v) ==
    /\ enhanced
    /\ search # v
    /\ search' = v
    /\ timers' = Debounce(timers)
    /\ UNCHANGED <<script, loaded, nrows, widget, absent, client, value, disabled,
                   spinner, listeners, calls, listAttr, datalists>>
    /\ UNCHANGED <<enhanced, options, searches, issued, status, emitted>>

\* time passes with no event, up to the moment the next timeout is due
TypeaheadWait ==
    /\ timers # <<>>
    /\ SmallestOf(timers) > 0
    /\ LET d == IF Tick < SmallestOf(timers) THEN Tick ELSE SmallestOf(timers)
       IN  timers' = [k \in DOMAIN timers |-> timers[k] - d]
    /\ UNCHANGED <<script, loaded, nrows, widget, absent, client, value, disabled,
                   spinner, listeners, calls, listAttr, datalists>>
    /\ UNCHANGED <<enhanced, search, options, searches, issued, status, emitted>>

\* timeout k is due: run starts, up to its await; it reads the search box now
TypeaheadFire(k) ==
    /\ k \in DOMAIN timers
    /\ timers[k] = 0
    /\ issued < MaxSearches
    /\ timers' = Without(timers, k)
    /\ LET q == Trim(search)
       IN  /\ status' = Status(IF q # <<>> THEN "Searching" ELSE "", 0)
           /\ searches' = Append(searches, SearchRequest(q, PageSize))
    /\ issued' = issued + 1
    /\ UNCHANGED <<script, loaded, nrows, widget, absent, client, value, disabled,
                   spinner, listeners, calls, listAttr, datalists>>
    /\ UNCHANGED <<enhanced, search, options, emitted>>

\* the fetch of run invocation i settles with resp and run finishes; the
\* events rebuildOptions dispatches on the select reach the listeners the
\* "spinner" script bound there, which read the select's new value
TypeaheadSettle(i, resp) ==
    /\ i \in DOMAIN searches
    /\ LET out == RunResume(searches[i].q, resp, client[1], options)
       IN  /\ options' = out.options
           /\ client' = [client EXCEPT ![1] = out.selected]
           /\ status' = out.status
           /\ emitted' = out.emitted
           /\ IF out.emitted # <<>>
              THEN SpinnerStart(out.selected,
                                Cardinality(SelectListeners("input"))
                                + Cardinality(SelectListeners("change")))
              ELSE UNCHANGED <<spinner, disabled, calls>>
    /\ searches' = Without(searches, i)
    /\ UNCHANGED <<script, loaded, nrows, widget, absent, value, listeners,
                   listAttr, datalists>>
    /\ UNCHANGED <<enhanced, search, timers, issued>>

TypeaheadResponse ==
    \E i \in 1..MaxSearches, resp \in SearchResponses : TypeaheadSettle(i, resp)

\* the operator picks option k of the select: it fires input, then change
TypeaheadPick(k) ==
    /\ k \in DOMAIN options
    /\ options[k].value # client[1]
    /\ client' = [client EXCEPT ![1] = options[k].value]
    /\ SpinnerStart(options[k].value,
                    Cardinality(SelectListeners("input"))
                    + Cardinality(SelectListeners("change")))
    /\ UNCHANGED <<script, loaded, nrows, widget, absent, value, listeners,
                   listAttr, datalists, typeahead>>

TypeaheadNext ==
    \/ SpinnerReady
    \/ SpinnerResponse
    \/ TypeaheadReady
    \/ \E v \in SearchValues : TypeaheadInput(v)
    \/ TypeaheadWait
    \/ \E k \in 1..MaxSearches : TypeaheadFire(k)
    \/ TypeaheadResponse

TypeaheadSpec == TypeaheadInit /\ [][TypeaheadNext]_vars

\* the type-ahead alone: nothing listens on the select
SearchNext ==
    \/ TypeaheadReady
    \/ \E v \in SearchValues : TypeaheadInput(v)
    \/ TypeaheadWait
    \/ \E k \in 1..MaxSearches : TypeaheadFire(k)
    \/ TypeaheadResponse
    \/ \E k \in 1..(MaxResults + 1) : TypeaheadPick(k)

SearchSpec == SearchInit /\ [][SearchNext]_vars

-----------------------------------------------------------------------------
(* Claims about the "spinner" script *)

\* JSON bodies that carry a client's defaults
DataResponses ==
    { resp \in AllResponses : resp.kind = "json" /\ resp.body.hasClient }

\* C1: when selection change A (client a) is followed by selection change B
\* (client b) before A's fetch resolves and A's response arrives after B's,
\* A's response writes no dependent field.  (A is invocation i with a's
\* defaults in its response; a later invocation has already returned and the
\* select holds another client than a.)
C1_StaleResponseWritesNothing ==
    [][\A i \in DOMAIN calls, resp \in DataResponses :
          (/\ SpinnerSettle(i, resp)
           /\ \E j \in DOMAIN calls : j > i /\ calls[j].pc = "done"
           /\ Trim(client[1]) # calls[i].cid)
          => value' = value]_vars

\* C2: applying a defaults response never changes a dependent field that already
\* holds a non-empty value.
C2_NonEmptyFieldKept ==
    [][\A i \in DOMAIN calls, resp \in DataResponses :
          SpinnerSettle(i, resp)
          => \A e \in DOMAIN value : value[e] # "" => value'[e] = value[e]]_vars

\* C3: while at least one defaults fetch is outstanding the spinner is shown
\* and every located dependent field is disabled.
C3_BusyWhileFetchOutstanding ==
    (script = "spinner" /\ Pending # {})
        => spinner /\ \A e \in LocateFields(absent) : disabled[e]

\* C4: every handleClientChange run that entered the busy gate has exited it
\* exactly once when its fetch has settled, and not before; and when every fetch
\* eventually settles, outstanding fetches lead to a scope with no fetch
\* outstanding, the spinner hidden and no located field disabled.
C4_BusyGateBalanced ==
    /\ [](\A i \in DOMAIN calls :
             calls[i].exits = IF calls[i].pc = "done" THEN 1 ELSE 0)
    /\ (Pending # {}) ~>
          (/\ Pending = {}
           /\ ~spinner
           /\ \A e \in LocateFields(absent) : ~disabled[e])

\* two overlapping runs have both exited: one response filled the fields, the
\* gate is open again
C4_Witness ==
    /\ script = "spinner"
    /\ Len(calls) >= 2
    /\ \A i \in DOMAIN calls : calls[i].pc = "done" /\ calls[i].exits = 1
    /\ ~spinner
    /\ \A e \in LocateFields(absent) : ~disabled[e]
    /\ value[<<1, "pickup_address">>] = "8 Oak Rd"
    /\ value[<<1, "notes">>] = ""

\* JSON bodies whose ok flag is false or missing
NotOkResponses ==
    { resp \in AllResponses : resp.kind = "json" /\ resp.body.ok \in {"false", "missing"} }

\* C5: a defaults response whose JSON body has ok false or missing writes no
\* dependent field and raises no error.
C5_NotOkBodyIsAbsent ==
    [][\A i \in DOMAIN calls, resp \in NotOkResponses :
          SpinnerSettle(i, resp) => value' = value /\ ~calls'[i].raised]_vars

-----------------------------------------------------------------------------
(* Claims about the "public" and "admin" scripts *)

\* fetches that end in a network error, a non-2xx status or a non-JSON answer
FailedResponses ==
    { resp \in AllResponses : resp.kind \in {"neterr", "http", "html"} }

\* C6: a defaults fetch that ends in a network error, a non-success HTTP status
\* or a non-JSON response never raises out of the selection-change handler:
\* the handler's promise is not rejected, every dependent field keeps its
\* value and no busy indicator is left on.  (A returning onClientChange puts
\* its summary at the front of calls.)
C6_FailedFetchStaysInside ==
    [][\A i \in DOMAIN calls, resp \in FailedResponses :
          PublicSettle(i, resp)
          => /\ value' = value
             /\ ~calls'[1].raised
             /\ ~spinner']_vars

\* the change listeners registered on a scope root
ListenersOn(root) == { i \in DOMAIN listeners : listeners[i].on = root }

\* C7: binding is idempotent: after DOMContentLoaded and any number of
\* formset:added events every scope root (the change-form and each inline row)
\* carries a single change listener.
C7_OneListenerPerRoot ==
    script = "admin" =>
        \A root \in {Form} \cup (1..nrows) : Cardinality(ListenersOn(root)) <= 1

\* the invocations started in this step
Started == (Len(calls) + 1)..Len(calls')

\* C8: scopes are isolated: a client-selection change in inline row r starts
\* reconciliations only on row r's own fields and only for the client id
\* selected in row r, and itself touches no field, disabled flag or
\* suggestion list.
C8_ChangeStaysInItsRow ==
    [][\A r \in Rows, v \in AdminClientValues :
          AdminPick(r, v)
          => /\ \A k \in Started :
                   /\ FirstRow(calls'[k].root, nrows) = r
                   /\ calls'[k].cid = v
             /\ UNCHANGED <<value, disabled, listAttr, datalists>>]_vars

\* a control value that selects no client: empty, or not made only of digits
NoClient(v) == v = <<>> \/ ~IsDigits(v)

\* C9: a change of row r's client control to a value that is empty or not made
\* only of digits is a no-op for row r: no reconciliation is started on its
\* fields, the busy gate is not entered and no dependent field changes.
C9_NonNumericIsNoOp ==
    [][\A r \in Rows, v \in AdminClientValues :
          (NoClient(v) /\ AdminPick(r, v))
          => /\ \A k \in Started : FirstRow(calls'[k].root, nrows) # r
             /\ UNCHANGED <<value, disabled, spinner>>]_vars

\* C10: in applyClientDefaults (admin) and onClientChange (public), in every
\* interleaving of selection changes, manual edits and responses, applying a
\* response changes no dependent field that is non-empty at that moment; so
\* a value typed while the fetch was outstanding is still there afterwards.
C10_ManualEditsWin ==
    [][(AdminResponse \/ PublicResponse)
          => \A e \in DOMAIN value : value[e] # "" => value'[e] = value[e]]_vars

\* client 7's defaults were applied to the first row: pickup_address was
\* offered "12 Elm St" (its suggestion list holds it) and kept what the
\* operator typed, the empty pickup_city was filled
C10_Witness ==
    /\ script \in {"admin", "public"}
    /\ \E i \in DOMAIN calls : calls[i].pc = "done"
    /\ listAttr[<<1, "pickup_address">>] = <<"pickup_address", <<"7">>>>
    /\ datalists[<<"pickup_address", <<"7">>>>] = <<"12 Elm St">>
    /\ value[<<1, "pickup_address">>] = "typed"
    /\ value[<<1, "pickup_city">>] = "Avon"

-----------------------------------------------------------------------------
(* Claims about the type-ahead *)

\* JSON answers that carry a result list
ListResponses ==
    { resp \in SearchResponses : resp.kind = "json" /\ resp.page.hasResults }

\* the ids of the items of a result list
IdsOf(R) == { R[k].id : k \in DOMAIN R }

\* the select holds the placeholder followed by one option per item of R, in
\* order, valued by the item's id and labelled by its name, or "Client #<id>"
\* when the item has no name
HoldsPage(opts, R) ==
    /\ Len(opts) = 1 + Len(R)
    /\ opts[1].value = <<>>
    /\ \A k \in DOMAIN R :
          /\ opts[k + 1].value = R[k].id
          /\ opts[k + 1].label =
                IF R[k].name \in {UNDEF, ""} THEN <<"Client #">> \o R[k].id
                ELSE <<R[k].name>>

\* C11: after rebuildOptions with result list R the select holds exactly
\* 1 + |R| options: the placeholder (value "") and then one option per item of
\* R in order, valued by its id and labelled by its name (or "Client #<id>");
\* the previously selected value is selected afterwards iff it is the id of
\* some item of R, otherwise the placeholder is selected.
C11_RebuildFromPage ==
    [][Len(searches') < Len(searches)
       => \A i \in DOMAIN searches, resp \in ListResponses :
             TypeaheadSettle(i, resp)
             => /\ HoldsPage(options', resp.page.results)
                /\ client'[1] = IF client[1] \in IdsOf(resp.page.results)
                                THEN client[1] ELSE <<>>]_vars

\* the select was rebuilt from the page <<Jane Doe (7), unnamed (8)>> while
\* client 7 was selected: three options, the fallback label, 7 still selected
C11_Witness ==
    /\ enhanced
    /\ issued >= 1
    /\ emitted = <<"input", "change">>
    /\ Len(options) = 3
    /\ options[2] = [value |-> <<"7">>, label |-> <<"Jane Doe">>]
    /\ options[3] = [value |-> <<"8">>, label |-> <<"Client #", "8">>]
    /\ options[1].label = <<"- Select client -">>
    /\ client[1] = <<"7">>

\* C12: a search request is issued only when the quiet interval has elapsed
\* with no further input event on the search box (the one pending timeout is
\* due), so a burst of keystrokes issues one request; it carries the search
\* box's (trimmed) value at fire time and the page size 20; an input event
\* itself issues none.
C12_OneRequestAfterQuiet ==
    [][/\ issued' # issued
          => /\ timers = <<0>>
             /\ timers' = <<>>
             /\ issued' = issued + 1
             /\ searches' = Append(searches, [q     |-> Trim(search),
                                              hasQ  |-> Trim(search) # <<>>,
                                              limit |-> 20])
       /\ search' # search => issued' = issued /\ searches' = searches]_vars

\* one request is in flight for "J", what the box held when the timeout fired
C12_Witness ==
    /\ search = <<"J", " ">>
    /\ timers = <<>>
    /\ issued = 1
    /\ searches = <<[q |-> <<"J">>, hasQ |-> TRUE, limit |-> 20]>>

\* C13: every option-set rebuild ends by emitting an input and then a change
\* notification on the select, after the new options and the restored
\* selection are in place, so that the listeners bound by the autofill script
\* run against the post-rebuild selection: each of them starts a
\* reconciliation for the client the select then holds.
C13_RebuildEndsWithNotifications ==
    [][\A i \in DOMAIN searches, resp \in SearchResponses :
          (TypeaheadSettle(i, resp) /\ (options' # options \/ client' # client))
          => /\ emitted' = <<"input", "change">>
             /\ IsDigits(Trim(client'[1]))
                => /\ Len(calls') = Len(calls) + Len(listeners)
                   /\ \A k \in (Len(calls) + 1)..Len(calls') :
                         calls'[k].cid = Trim(client'[1])]_vars

\* fetches that fail: no answer, a non-2xx status, a content type that is not
\* JSON, a body that does not parse
FailedSearches == { resp \in SearchResponses : resp.kind # "json" }

\* C14: searchClients returns the empty page {results: [], has_more: false}
\* on every failure (non-success status, non-JSON content type, network
\* error, unparsable body) and never raises an error to its caller (run's
\* catch block, which writes "Search failed", is not entered).
C14_SearchFailureIsEmptyPage ==
    [][\A i \in DOMAIN searches, resp \in FailedSearches :
          TypeaheadSettle(i, resp)
          => /\ SearchClients(resp) = [raised |-> FALSE, page |-> EmptyPage]
             /\ status'.text # "Search failed"]_vars

\* C15: an empty or whitespace-only search string still issues a request,
\* without q and with the page-size limit, and the select is rebuilt from the
\* page the backend returns, not emptied on the client side.
C15_EmptyQueryBrowsesAll ==
    [][/\ \A k \in DOMAIN timers :
             (TypeaheadFire(k) /\ Trim(search) = <<>>)
             => /\ issued' = issued + 1
                /\ ~searches'[Len(searches')].hasQ
                /\ searches'[Len(searches')].limit = 20
       /\ \A i \in DOMAIN searches, resp \in ListResponses :
             (~searches[i].hasQ /\ TypeaheadSettle(i, resp))
             => HoldsPage(options', resp.page.results)]_vars

\* the only request so far was sent for the whitespace the box still holds,
\* and the select now lists the client the backend returned
C15_Witness ==
    /\ search = <<" ">>
    /\ timers = <<>>
    /\ issued = 1
    /\ searches = <<>>
    /\ Len(options) = 2
    /\ options[2].value = <<"7">>
    /\ status = Status("", 0)
    /\ emitted = <<"input", "change">>

-----------------------------------------------------------------------------
(* Claims about page load and about the busy gate *)

\* the ready / DOMContentLoaded callback of the page's autofill script runs
ReadyStep == SpinnerReady \/ PublicDOMContentLoaded \/ AdminDOMContentLoaded

FieldOfLabel(l) == IF l = "start_time/pickup_time" THEN "start_time" ELSE l

\* C17: the filled-field list built by a reconciliation contains exactly the
\* names of the dependent fields whose value that reconciliation changed: a
\* located field whose value stays as it was is not listed.
C17_FilledListsChangedFields ==
    [][\A i \in DOMAIN calls, resp \in DataResponses :
          SpinnerSettle(i, resp)
          => LET filled == SpinnerFilled(absent, GetClientDefaults(resp).rec)
             IN  { FieldOfLabel(filled[k]) : k \in DOMAIN filled }
                 = { f \in DepFields : value'[<<1, f>>] # value[<<1, f>>] }]_vars

\* C18: every dependent-field write of handleClientChange happens while the
\* busy gate is engaged (spinner shown, located fields disabled), in every
\* interleaving of overlapping runs: no run applies its defaults after
\* another run's exit has re-enabled the fields.
C18_WritesOnlyInsideGate ==
    [][\A i \in DOMAIN calls, resp \in DataResponses :
          (SpinnerSettle(i, resp) /\ value' # value)
          => /\ spinner
             /\ \A e \in LocateFields(absent) : disabled[e]]_vars

\* C19: a matched busy-gate enter/exit pair with no overlapping run restores
\* the disabled state of every dependent field: a field that was disabled
\* before the script ran is still disabled after the only run has exited.
C19_ExitRestoresDisabled ==
    \A e \in FieldsOf(1) :
        []((~loaded /\ disabled[e])
              => [](script = "spinner" /\ Len(calls) = 1 /\ Pending = {}
                       => disabled[e]))

-----------------------------------------------------------------------------
(* Claims about failed searches *)

\* searches answered with a non-2xx status or a content type that is not JSON
RefusedSearches == { resp \in SearchResponses : resp.kind \in {"http", "html"} }

\* C20: a search that fails with a non-success status or a non-JSON response
\* is a no-op for the select: its options and its selected value stay as
\* they were and no change notification reaches the autofill script.
C20_FailedSearchLeavesSelect ==
    [][\A i \in DOMAIN searches, resp \in RefusedSearches :
          TypeaheadSettle(i, resp)
          => /\ options' = options
             /\ client' = client
             /\ emitted' = <<>>
             /\ calls' = calls]_vars

\* C21: when two searches are in flight and the response of the older one
\* arrives after the response of the younger one, the select's final option
\* set is the one built from the younger (latest) query.  (No timeout is
\* pending, so the latest request carried what the search box holds; the
\* request settling now carried something else and is the only one still in
\* flight, so it is older than the latest one, whose response has already
\* rebuilt the select: this late response must leave the select as it is.)
C21_LatestQueryWins ==
    [][\A resp \in ListResponses :
          (/\ timers = <<>>
           /\ Len(searches) = 1
           /\ searches[1].q # Trim(search)
           /\ emitted = <<"input", "change">>
           /\ TypeaheadSettle(1, resp))
          => options' = options /\ client' = client]_vars

\* the invocations that have returned
Finished == DOMAIN calls \ Pending

\* the steps in which a defaults fetch resolves and its reconciliation runs
\* (such a step leaves the client control alone and returns an invocation)
ResolveStep ==
    /\ client' = client
    /\ Cardinality(Finished') > Cardinality(Finished)
    /\ (SpinnerResponse \/ BodyResponse \/ AdminResponse)

\* the steps in which the client-selection control changes
PickStep ==
    \/ \E v \in ClientValues : SpinnerPick(v)
    \/ \E r \in 1..2, v \in AdminClientValues : BodyPick(r, v)
    \/ \E r \in Rows, v \in AdminClientValues : AdminPick(r, v)

\* C22: the input/change notifications a reconciliation emits on the
\* dependent fields start no other reconciliation: a step that resolves a
\* fetch starts no defaults fetch and leaves one fetch fewer outstanding, and
\* one change of the client-selection control starts at most one fetch per
\* bound listener; so when the outstanding fetches have resolved, none is
\* pending.
C22_EchoStartsNoReconciliation ==
    [][/\ ResolveStep => /\ Len(calls') = Len(calls)
                         /\ Cardinality(Pending') = Cardinality(Pending) - 1
       /\ PickStep => Len(calls') - Len(calls) <= Len(listeners)]_vars

\* C22 witness: on the body-listener form a reconciliation has written the
\* fields (dispatching input and change on each) while the body listener is
\* bound, and no fetch is pending
C22_Witness ==
    /\ script = "body"
    /\ listeners # <<>>
    /\ calls # <<>>
    /\ Pending = {}
    /\ value[<<1, "pickup_address">>] = "12 Elm St"
    /\ value[<<1, "notes">>] = "VIP"

\* what the reconciliation of invocation i with resp writes when every
\* dependent field is located
WithAllFields(i, resp) ==
    IF script = "spinner"
    THEN SpinnerApply(value, {}, GetClientDefaults(resp).rec)
    ELSE IF resp.body.ok = "true"
         THEN FillIfEmpty(value, FirstRow(calls[i].root, nrows), AdminFields,
                          resp.body.rec)
         ELSE value

\* C23: when some dependent fields cannot be located, a reconciliation still
\* writes every dependent field that is present, exactly as it would with all
\* fields located, leaves the missing ones alone and raises no error.
C23_MissingFieldsAreSkipped ==
    [][(absent # {} /\ Cardinality(Finished') > Cardinality(Finished))
       => \A i \in Pending : \A resp \in DataResponses :
             (SpinnerSettle(i, resp) \/ AdminSettle(i, resp))
             => /\ \A e \in DOMAIN value :
                      value'[e] = IF e[2] \in absent THEN value[e]
                                  ELSE WithAllFields(i, resp)[e]
                /\ \A j \in DOMAIN calls' : ~calls'[j].raised]_vars

\* C23 witness: on the spinner form without the drop-off address and city, a
\* reconciliation has written the fields that come before and after the
\* missing ones in the order of its forceSet calls
C23_Witness ==
    /\ script = "spinner"
    /\ absent = {"dropoff_address", "dropoff_city"}
    /\ \E i \in DOMAIN calls : calls[i].pc = "done"
    /\ value[<<1, "pickup_address">>] = "12 Elm St"
    /\ value[<<1, "start_time">>] = "09:00"
    /\ value[<<1, "notes">>] = "VIP"
    /\ value[<<1, "pickup_city">>] = "Avon"
    /\ value[<<1, "dropoff_address">>] = ""

====
